---- MODULE Spec2Model ----
(***************************************************************************)
(* netlib: a one-header wrapper over the POSIX sockets API (netlib.h, and  *)
(* its older C++ variant netlib.hpp).                                      *)
(*                                                                         *)
(* One caller thread invokes the library's functions. Every function is    *)
(* modelled step by step, one step per system call it issues, so that the  *)
(* order of the calls, the early returns and the resources left behind can *)
(* be read off a run. The operating system is the environment: every       *)
(* system call may fail or succeed as POSIX allows, descriptors are handed *)
(* out lowest-free-first, and resolved addresses live on a heap.           *)
(***************************************************************************)
EXTENDS Integers, Sequences, FiniteSets, TLC

\* ------------------------------------------------------------- bounds
MaxFd == 3        \* size of the process's descriptor table
MaxAddrs == 2     \* resolved-address structures that may be live at once
MaxLen == 2       \* largest caller buffer, in bytes
MaxSends == 3     \* send() calls one library call may issue
MaxBacklog == 2   \* largest BACKLOG a caller passes
MaxCalls == 3     \* library calls in one run

\* ------------------------------------------- error codes of the header
TCONNECT_ERRS == 3
TCONNECT_ERR_ADDR == -1
TCONNECT_ERR_SOCK == -2
TCONNECT_ERR_CONN == -3
TCONNECT_ERR_ADDR_STR == "Unable to resolve address"
TCONNECT_ERR_SOCK_STR == "Unable to set up socket"
TCONNECT_ERR_CONN_STR == "Unable to connect to server"

TDISCONNECT_ERRS == 0

TSEND_ERRS == 1
TSEND_ERR_SEND == -1
TSEND_ERR_SEND_STR == "Unable to send data"

TRECV_ERRS == 1
TRECV_ERR_NODATA == -1
TRECV_ERR_NODATA_STR == "Recieved no data or target disconnected"

TSEND_RECV_ERRS == 2
TSEND_RECV_ERR_SEND == -1
TSEND_RECV_ERR_NODATA == -2
TSEND_RECV_ERR_SEND_STR == "Unable to send data"
TSEND_RECV_ERR_NODATA_STR == "Recieved no data or target disconnected"

TCREATE_HOST_ERRS == 4
TCREATE_HOST_ERR_ADDR == -1
TCREATE_HOST_ERR_FD == -2
TCREATE_HOST_ERR_PORT == -3
TCREATE_HOST_ERR_FPORT == -4
TCREATE_HOST_ERR_ADDR_STR == "Unable to resolve address"
TCREATE_HOST_ERR_FD_STR == "Unable to set up files descriptor"
TCREATE_HOST_ERR_PORT_STR == "Unable to bind to port"
TCREATE_HOST_ERR_FPORT_STR == "Unable to force bind to port"

TLISTEN_ACCEPT_ERRS == 2
TLISTEN_ACCEPT_ERR_LISTEN == -1
TLISTEN_ACCEPT_ERR_ACCEPT == -2
TLISTEN_ACCEPT_ERR_LISTEN_STR == "Unable to listen for incoming connection"
TLISTEN_ACCEPT_ERR_ACCEPT_STR == "Unable to accept incoming connection"

USOCK_ERRS == 2
USOCK_ERR_ADDR == -1
USOCK_ERR_SOCK == -2
USOCK_ERR_ADDR_STR == "Unable to resolve address"
USOCK_ERR_SOCK_STR == "Unable to set up socket"

USEND_ERRS == 1
USEND_ERR_SEND == -1
USEND_ERR_SEND_STR == "Unable to send data"

USEND_ONCE_ERRS == 3
USEND_ONCE_ERR_ADDR == -1
USEND_ONCE_ERR_SOCK == -2
USEND_ONCE_ERR_SEND == -3
USEND_ONCE_ERR_ADDR_STR == "Unable to resolve address"
USEND_ONCE_ERR_SOCK_STR == "Unable to set up socket"
USEND_ONCE_ERR_SEND_STR == "Unable to send data"

UCREATE_HOST_ERRS == 4
UCREATE_HOST_ERR_ADDR == -1
UCREATE_HOST_ERR_FD == -2
UCREATE_HOST_ERR_PORT == -3
UCREATE_HOST_ERR_FPORT == -4
UCREATE_HOST_ERR_ADDR_STR == "Unable to resolve address"
UCREATE_HOST_ERR_FD_STR == "Unable to set up files descriptor"
UCREATE_HOST_ERR_PORT_STR == "Unable to bind to port"
UCREATE_HOST_ERR_FPORT_STR == "Unable to force bind to port"

\* ------------------------------------------------------------- state
VARIABLES
  pc,          \* where the caller is: "idle", or the next step of the call
  op,          \* the library function called last ("none" at the start)
  ncalls,      \* library calls made so far
  ret,         \* what the last call returned
  fds,         \* the descriptor table: descriptor -> socket, or Closed
  heap,        \* the resolved-address structures getaddrinfo has allocated
  retfd,       \* local of tconnect, *create_host, tlisten_accept*, usock
  servinfo,    \* local of tconnect, *create_host, usend_once
  sockfd,      \* parameter of tlisten_accept*, usend; local of usend_once
  targetfd,    \* parameter of tsend, trecv, tsend_recv, tdisconnect
  BACKLOG,     \* parameter of tlisten_accept*
  bytes,       \* the caller's buffer
  bytes_size,  \* its length argument (in/out for trecv and tsend_recv)
  bytes_sent,  \* local of tsend and tsend_recv
  targetinfo,  \* the caller's struct addrinfo*, set by usock
  bytes0,      \* history: the buffer as it was when the call was made
  trace,       \* history: the system calls of the current call, in order
  stream,      \* history: the bytes the current call handed to the peer
  accepted,    \* history: <<listening fd, returned fd>> per successful accept
  open0,       \* history: the descriptors open when the call was made
  heap0,       \* history: the structures allocated when the call was made
  disconnected, \* history: the stream sockets tdisconnect was called on
  errstr       \* what {FUNCTION}_ERR__STR(ret) gave, once looked up

vars == <<pc, op, ncalls, ret, fds, heap, retfd, servinfo, sockfd, targetfd,
          BACKLOG, bytes, bytes_size, bytes_sent, targetinfo, bytes0, trace,
          stream, accepted, open0, heap0, disconnected, errstr>>

\* ------------------------------------------------ the operating system
Fds == 0 .. (MaxFd - 1)
Addrs == 0 .. (MaxAddrs - 1)
NoFd == -1
NoAddr == -1

Closed ==
  [kind |-> "none", st |-> "closed", reuse |-> FALSE, shut |-> FALSE,
   backlog |-> 0, pending |-> 0, taken |-> 0]

NewSocket(kind) ==
  [kind |-> kind, st |-> "new", reuse |-> FALSE, shut |-> FALSE,
   backlog |-> 0, pending |-> 0, taken |-> 0]

IsOpen(fd) == fd \in Fds /\ fds[fd] # Closed
OpenFds == {fd \in Fds : fds[fd] # Closed}

\* socket() and accept() return the lowest descriptor not in use
HasFreeFd == \E fd \in Fds : fds[fd] = Closed
FreeFd == CHOOSE fd \in Fds : fds[fd] = Closed /\ \A g \in Fds : fds[g] = Closed => fd <= g

\* getaddrinfo() allocates a structure that freeaddrinfo() releases
HasFreeAddr == heap # Addrs
FreeAddr == CHOOSE a \in Addrs : a \notin heap /\ \A b \in Addrs \ heap : a <= b

\* one entry of the history of system calls
Sys(name, fd, arg, res) == [sys |-> name, fd |-> fd, arg |-> arg, res |-> res]
Names(t) == [i \in 1 .. Len(t) |-> t[i].sys]
Count(t, name) == Cardinality({i \in 1 .. Len(t) : t[i].sys = name})

\* what send(fd, buf, len, 0) may return
SendResults(fd, len) ==
  {-1} \cup (IF IsOpen(fd) /\ fds[fd].kind = "stream" /\ fds[fd].st = "connected" /\ ~fds[fd].shut
             THEN (IF len = 0 THEN {0} ELSE 1 .. len)
             ELSE {})

\* what recv(fd, buf, len, 0) may return: an error, 0 when the peer has closed
\* or the stream is shut down, else the count of bytes written to buf
RecvResults(fd, len) ==
  {-1} \cup (IF IsOpen(fd) /\ fds[fd].kind = "stream" /\ fds[fd].st = "connected"
             THEN (IF fds[fd].shut THEN {0} ELSE 0 .. len)
             ELSE IF IsOpen(fd) /\ fds[fd].kind = "dgram" /\ fds[fd].st = "bound"
             THEN 1 .. len
             ELSE {})

\* the bytes the peer sends: told apart from every byte a caller sends
PeerData(n) == [i \in 1 .. n |-> 100 + i]

\* what sendto(fd, data, len, 0, addr, addrlen) may return: a datagram is
\* sent whole or not at all
SendtoResults(fd, len) ==
  {-1} \cup (IF IsOpen(fd) /\ fds[fd].kind = "dgram" THEN {len} ELSE {})

\* what close(fd) may return: the descriptor is released either way, but
\* a deferred error (EIO, EINTR) is reported as -1
CloseResults == {0, -1}

\* the caller's buffers: byte i of a buffer is i, so that any byte lost,
\* repeated or out of place shows
Buffer(n) == [i \in 1 .. n |-> i]

\* ------------------------------------------------------ call and return
Init ==
  /\ pc = "idle"
  /\ op = "none"
  /\ ncalls = 0
  /\ ret = 0
  /\ fds = [fd \in Fds |-> Closed]
  /\ heap = {}
  /\ retfd = NoFd
  /\ servinfo = NoAddr
  /\ sockfd = NoFd
  /\ targetfd = NoFd
  /\ BACKLOG = 0
  /\ bytes = <<>>
  /\ bytes_size = 0
  /\ bytes_sent = 0
  /\ targetinfo = NoAddr
  /\ bytes0 = <<>>
  /\ trace = <<>>
  /\ stream = <<>>
  /\ accepted = <<>>
  /\ open0 = {}
  /\ heap0 = {}
  /\ disconnected = {}
  /\ errstr = <<>>

\* the caller calls library function f, whose first step is label
Call(f, label) ==
  /\ pc = "idle"
  /\ ncalls < MaxCalls
  /\ ncalls' = ncalls + 1
  /\ op' = f
  /\ pc' = label
  /\ ret' = 0
  /\ trace' = <<>>
  /\ stream' = <<>>
  /\ open0' = OpenFds
  /\ heap0' = heap
  /\ UNCHANGED disconnected
  /\ errstr' = <<>>

\* the function returns code; its parameters and locals go out of scope
Return(code) ==
  /\ pc' = "idle"
  /\ ret' = code
  /\ retfd' = NoFd
  /\ servinfo' = NoAddr
  /\ sockfd' = NoFd
  /\ targetfd' = NoFd
  /\ BACKLOG' = 0
  /\ bytes_sent' = 0

NoArgs == UNCHANGED <<retfd, servinfo, sockfd, targetfd, BACKLOG, bytes_sent>>
Caller == <<bytes, bytes_size, targetinfo, bytes0>>
Frame == <<op, ncalls, accepted, open0, heap0, disconnected, errstr>>

\* --------------------------------------------------------------- tconnect
tconnect_call ==
  /\ Call("tconnect", "tconnect_getaddrinfo")
  /\ NoArgs
  /\ UNCHANGED <<fds, heap, Caller, accepted>>

tconnect_getaddrinfo ==
  /\ pc = "tconnect_getaddrinfo"
  /\ \/ /\ trace' = Append(trace, Sys("getaddrinfo", NoFd, 0, -1))
        /\ Return(TCONNECT_ERR_ADDR)
        /\ UNCHANGED heap
     \/ /\ HasFreeAddr
        /\ heap' = heap \cup {FreeAddr}
        /\ servinfo' = FreeAddr
        /\ trace' = Append(trace, Sys("getaddrinfo", NoFd, FreeAddr, 0))
        /\ pc' = "tconnect_socket"
        /\ UNCHANGED <<ret, retfd, sockfd, targetfd, BACKLOG, bytes_sent>>
  /\ UNCHANGED <<fds, Caller, Frame, stream>>

tconnect_socket ==
  /\ pc = "tconnect_socket"
  /\ \/ /\ trace' = Append(trace, Sys("socket", NoFd, 0, -1))
        /\ Return(TCONNECT_ERR_SOCK)
        /\ UNCHANGED fds
     \/ /\ HasFreeFd
        /\ fds' = [fds EXCEPT ![FreeFd] = NewSocket("stream")]
        /\ retfd' = FreeFd
        /\ trace' = Append(trace, Sys("socket", NoFd, 0, FreeFd))
        /\ pc' = "tconnect_connect"
        /\ UNCHANGED <<ret, servinfo, sockfd, targetfd, BACKLOG, bytes_sent>>
  /\ UNCHANGED <<heap, Caller, Frame, stream>>

\* mutant: a failed connect reported with the socket stage's code
tconnect_connect_sockcode ==
  /\ pc = "tconnect_connect"
  /\ \/ /\ trace' = Append(trace, Sys("connect", retfd, servinfo, -1))
        /\ Return(TCONNECT_ERR_SOCK)
        /\ UNCHANGED <<fds, heap>>
     \/ /\ fds' = [fds EXCEPT ![retfd].st = "connected"]
        /\ heap' = heap \ {servinfo}
        /\ trace' = trace \o <<Sys("connect", retfd, servinfo, 0),
                               Sys("freeaddrinfo", NoFd, servinfo, 0)>>
        /\ Return(retfd)
  /\ UNCHANGED <<Caller, Frame, stream>>

tconnect_connect ==
  /\ pc = "tconnect_connect"
  /\ \/ /\ trace' = Append(trace, Sys("connect", retfd, servinfo, -1))
        /\ Return(TCONNECT_ERR_CONN)
        /\ UNCHANGED <<fds, heap>>
     \/ /\ fds' = [fds EXCEPT ![retfd].st = "connected"]
        /\ heap' = heap \ {servinfo}
        /\ trace' = trace \o <<Sys("connect", retfd, servinfo, 0),
                               Sys("freeaddrinfo", NoFd, servinfo, 0)>>
        /\ Return(retfd)
  /\ UNCHANGED <<Caller, Frame, stream>>

\* ------------------------------------------------------------------ tsend
\* the caller passes an open or a stale descriptor and a buffer of any length
tsend_call ==
  /\ Call("tsend", "tsend_send")
  /\ \E fd \in Fds, n \in 0 .. MaxLen :
       /\ targetfd' = fd
       /\ bytes' = Buffer(n)
       /\ bytes0' = Buffer(n)
       /\ bytes_size' = n
  /\ bytes_sent' = 0
  /\ UNCHANGED <<fds, heap, retfd, servinfo, sockfd, BACKLOG, targetinfo, accepted>>

\* one pass of the do-while loop: send from the start of the buffer, give up
\* on -1, go round again while the last send was short
tsend_send ==
  /\ pc = "tsend_send"
  /\ \E n \in SendResults(targetfd, bytes_size) :
       /\ n < bytes_size /\ n # -1 => Count(trace, "send") + 1 < MaxSends
       /\ trace' = Append(trace, Sys("send", targetfd, bytes_size, n))
       /\ stream' = IF n > 0 THEN stream \o SubSeq(bytes, 1, n) ELSE stream
       /\ IF n = -1 THEN Return(TSEND_ERR_SEND)
          ELSE IF n < bytes_size
          THEN /\ bytes_sent' = n
               /\ UNCHANGED <<pc, ret, retfd, servinfo, sockfd, targetfd, BACKLOG>>
          ELSE Return(0)
  /\ UNCHANGED <<fds, heap, Caller, Frame>>

\* ------------------------------------------------------------------ trecv
\* the caller passes a descriptor and a buffer with its capacity
trecv_call ==
  /\ Call("trecv", "trecv_recv")
  /\ \E fd \in Fds, n \in 0 .. MaxLen :
       /\ targetfd' = fd
       /\ bytes' = Buffer(n)
       /\ bytes0' = Buffer(n)
       /\ bytes_size' = n
  /\ UNCHANGED <<fds, heap, retfd, servinfo, sockfd, BACKLOG, bytes_sent, targetinfo, accepted>>

\* the buffer after recv() wrote n bytes at its start
Received(buf, n) == IF n > 0 THEN PeerData(n) \o SubSeq(buf, n + 1, Len(buf)) ELSE buf

\* mutant: only a negative count is an error; a closed peer reads as success
trecv_status_eof(n) == IF n < 0 THEN TRECV_ERR_NODATA ELSE 0

\* if((*bytes_size = recv(...)) < 1) return -1; return 0;
trecv_status(n) == IF n < 1 THEN TRECV_ERR_NODATA ELSE 0

trecv_recv ==
  /\ pc = "trecv_recv"
  /\ \E n \in RecvResults(targetfd, bytes_size) :
       /\ trace' = Append(trace, Sys("recv", targetfd, bytes_size, n))
       /\ bytes' = Received(bytes, n)
       /\ bytes_size' = n
       /\ Return(trecv_status(n))
  /\ UNCHANGED <<fds, heap, targetinfo, bytes0, Frame, stream>>

\* ------------------------------------------------------------- tsend_recv
\* netlib.hpp's tnetlib::tsend_recv is the same code with a reference for
\* the pointer
tsend_recv_call ==
  /\ Call("tsend_recv", "tsend_recv_send")
  /\ \E fd \in Fds, n \in 0 .. MaxLen :
       /\ targetfd' = fd
       /\ bytes' = Buffer(n)
       /\ bytes0' = Buffer(n)
       /\ bytes_size' = n
  /\ bytes_sent' = 0
  /\ UNCHANGED <<fds, heap, retfd, servinfo, sockfd, BACKLOG, targetinfo, accepted>>

tsend_recv_send ==
  /\ pc = "tsend_recv_send"
  /\ \E n \in SendResults(targetfd, bytes_size) :
       /\ n < bytes_size /\ n # -1 => Count(trace, "send") + 1 < MaxSends
       /\ trace' = Append(trace, Sys("send", targetfd, bytes_size, n))
       /\ stream' = IF n > 0 THEN stream \o SubSeq(bytes, 1, n) ELSE stream
       /\ IF n = -1 THEN Return(TSEND_RECV_ERR_SEND)
          ELSE /\ bytes_sent' = n
               /\ pc' = IF n < bytes_size THEN "tsend_recv_send" ELSE "tsend_recv_recv"
               /\ UNCHANGED <<ret, retfd, servinfo, sockfd, targetfd, BACKLOG>>
  /\ UNCHANGED <<fds, heap, Caller, Frame>>

\* mutant: the receive failure reported with trecv's code, which here is the
\* send failure's
tsend_recv_status_trecv(n) == IF n < 1 THEN TRECV_ERR_NODATA ELSE 0

\* if((*bytes_size = recv(...)) < 1) return -2; return 0;
tsend_recv_status(n) == IF n < 1 THEN TSEND_RECV_ERR_NODATA ELSE 0

tsend_recv_recv ==
  /\ pc = "tsend_recv_recv"
  /\ \E n \in RecvResults(targetfd, bytes_size) :
       /\ trace' = Append(trace, Sys("recv", targetfd, bytes_size, n))
       /\ bytes' = Received(bytes, n)
       /\ bytes_size' = n
       /\ Return(tsend_recv_status(n))
  /\ UNCHANGED <<fds, heap, targetinfo, bytes0, Frame, stream>>

\* ------------------------------------------------------------ tdisconnect
tdisconnect_call ==
  /\ Call("tdisconnect", "tdisconnect_shutdown")
  /\ \E fd \in Fds : targetfd' = fd
  /\ UNCHANGED <<fds, heap, retfd, servinfo, sockfd, BACKLOG, bytes_sent, Caller, accepted>>

\* shutdown(targetfd, 2) fails on a descriptor that is not a connected
\* stream; the function is void, so the caller is told nothing either way
\* the history of tdisconnect: the stream sockets it was called on
Disconnected(fd) ==
  IF IsOpen(fd) /\ fds[fd].kind = "stream" THEN disconnected \cup {fd} ELSE disconnected

\* mutant: the descriptor is closed, as a disconnect in close()'s sense
tdisconnect_shutdown_close ==
  /\ pc = "tdisconnect_shutdown"
  /\ IF IsOpen(targetfd)
     THEN /\ fds' = [fds EXCEPT ![targetfd] = Closed]
          /\ trace' = Append(trace, Sys("close", targetfd, 0, 0))
     ELSE /\ trace' = Append(trace, Sys("close", targetfd, 0, -1))
          /\ UNCHANGED fds
  /\ disconnected' = Disconnected(targetfd)
  /\ Return(0)
  /\ UNCHANGED <<heap, Caller, op, ncalls, accepted, open0, heap0, errstr, stream>>

tdisconnect_shutdown ==
  /\ pc = "tdisconnect_shutdown"
  /\ IF IsOpen(targetfd) /\ fds[targetfd].kind = "stream" /\ fds[targetfd].st = "connected"
     THEN /\ fds' = [fds EXCEPT ![targetfd].shut = TRUE]
          /\ trace' = Append(trace, Sys("shutdown", targetfd, 2, 0))
     ELSE /\ trace' = Append(trace, Sys("shutdown", targetfd, 2, -1))
          /\ UNCHANGED fds
  /\ disconnected' = Disconnected(targetfd)
  /\ Return(0)
  /\ UNCHANGED <<heap, Caller, op, ncalls, accepted, open0, heap0, errstr, stream>>

\* listen(fd, backlog) needs a bound stream socket; calling it again on a
\* listening socket only changes the backlog
CanListen(fd) == IsOpen(fd) /\ fds[fd].kind = "stream" /\ fds[fd].st \in {"bound", "listening"}

CanAccept(fd) == IsOpen(fd) /\ fds[fd].st = "listening" /\ fds[fd].pending > 0 /\ HasFreeFd

\* the descriptor table after accept(fd) returned new
Accepted(fd, new) ==
  [fds EXCEPT ![fd].pending = @ - 1, ![fd].taken = @ + 1,
              ![new] = [NewSocket("stream") EXCEPT !.st = "connected"]]

\* a remote peer connects to a listening socket: the connection waits in the
\* socket's queue, which holds at most backlog connections
PeerConnect ==
  /\ \E fd \in Fds :
       /\ fds[fd].st = "listening"
       /\ fds[fd].pending < fds[fd].backlog
       /\ fds' = [fds EXCEPT ![fd].pending = @ + 1]
  /\ UNCHANGED <<pc, op, ncalls, ret, heap, retfd, servinfo, sockfd, targetfd, BACKLOG,
                 bytes, bytes_size, bytes_sent, targetinfo, bytes0, trace, stream,
                 accepted, open0, heap0, disconnected, errstr>>

\* ------------------------------------------------------------ tcreate_host
tcreate_host_call ==
  /\ Call("tcreate_host", "tcreate_host_getaddrinfo")
  /\ NoArgs
  /\ UNCHANGED <<fds, heap, Caller, accepted>>

tcreate_host_getaddrinfo ==
  /\ pc = "tcreate_host_getaddrinfo"
  /\ \/ /\ trace' = Append(trace, Sys("getaddrinfo", NoFd, 0, -1))
        /\ Return(TCREATE_HOST_ERR_ADDR)
        /\ UNCHANGED heap
     \/ /\ HasFreeAddr
        /\ heap' = heap \cup {FreeAddr}
        /\ servinfo' = FreeAddr
        /\ trace' = Append(trace, Sys("getaddrinfo", NoFd, FreeAddr, 0))
        /\ pc' = "tcreate_host_socket"
        /\ UNCHANGED <<ret, retfd, sockfd, targetfd, BACKLOG, bytes_sent>>
  /\ UNCHANGED <<fds, Caller, Frame, stream>>

\* mutant: the socket is bound without address reuse being enabled first
tcreate_host_socket_noreuse ==
  /\ pc = "tcreate_host_socket"
  /\ \/ /\ trace' = Append(trace, Sys("socket", NoFd, 0, -1))
        /\ Return(TCREATE_HOST_ERR_FD)
        /\ UNCHANGED fds
     \/ /\ HasFreeFd
        /\ fds' = [fds EXCEPT ![FreeFd] = NewSocket("stream")]
        /\ retfd' = FreeFd
        /\ trace' = Append(trace, Sys("socket", NoFd, 0, FreeFd))
        /\ pc' = "tcreate_host_bind"
        /\ UNCHANGED <<ret, servinfo, sockfd, targetfd, BACKLOG, bytes_sent>>
  /\ UNCHANGED <<heap, Caller, Frame, stream>>

tcreate_host_socket ==
  /\ pc = "tcreate_host_socket"
  /\ \/ /\ trace' = Append(trace, Sys("socket", NoFd, 0, -1))
        /\ Return(TCREATE_HOST_ERR_FD)
        /\ UNCHANGED fds
     \/ /\ HasFreeFd
        /\ fds' = [fds EXCEPT ![FreeFd] = NewSocket("stream")]
        /\ retfd' = FreeFd
        /\ trace' = Append(trace, Sys("socket", NoFd, 0, FreeFd))
        /\ pc' = "tcreate_host_setsockopt"
        /\ UNCHANGED <<ret, servinfo, sockfd, targetfd, BACKLOG, bytes_sent>>
  /\ UNCHANGED <<heap, Caller, Frame, stream>>

\* mutant: the result of setsockopt is not looked at
tcreate_host_setsockopt_unchecked ==
  /\ pc = "tcreate_host_setsockopt"
  /\ \/ /\ trace' = Append(trace, Sys("setsockopt", retfd, 0, -1))
        /\ UNCHANGED fds
     \/ /\ fds' = [fds EXCEPT ![retfd].reuse = TRUE]
        /\ trace' = Append(trace, Sys("setsockopt", retfd, 0, 0))
  /\ pc' = "tcreate_host_bind"
  /\ UNCHANGED <<ret, retfd, servinfo, sockfd, targetfd, BACKLOG, bytes_sent>>
  /\ UNCHANGED <<heap, Caller, Frame, stream>>

tcreate_host_setsockopt ==
  /\ pc = "tcreate_host_setsockopt"
  /\ \/ /\ trace' = Append(trace, Sys("setsockopt", retfd, 0, -1))
        /\ Return(TCREATE_HOST_ERR_FPORT)
        /\ UNCHANGED fds
     \/ /\ fds' = [fds EXCEPT ![retfd].reuse = TRUE]
        /\ trace' = Append(trace, Sys("setsockopt", retfd, 0, 0))
        /\ pc' = "tcreate_host_bind"
        /\ UNCHANGED <<ret, retfd, servinfo, sockfd, targetfd, BACKLOG, bytes_sent>>
  /\ UNCHANGED <<heap, Caller, Frame, stream>>

tcreate_host_bind ==
  /\ pc = "tcreate_host_bind"
  /\ \/ /\ trace' = Append(trace, Sys("bind", retfd, servinfo, -1))
        /\ Return(TCREATE_HOST_ERR_PORT)
        /\ UNCHANGED <<fds, heap>>
     \/ /\ fds' = [fds EXCEPT ![retfd].st = "bound"]
        /\ heap' = heap \ {servinfo}
        /\ trace' = trace \o <<Sys("bind", retfd, servinfo, 0),
                               Sys("freeaddrinfo", NoFd, servinfo, 0)>>
        /\ Return(retfd)
  /\ UNCHANGED <<Caller, Frame, stream>>

\* ---------------------------------------------------------- tlisten_accept
tlisten_accept_call ==
  /\ Call("tlisten_accept", "tlisten_accept_listen")
  /\ \E fd \in Fds, b \in 1 .. MaxBacklog :
       /\ sockfd' = fd
       /\ BACKLOG' = b
  /\ UNCHANGED <<fds, heap, retfd, servinfo, targetfd, bytes_sent, Caller, accepted>>

tlisten_accept_listen ==
  /\ pc = "tlisten_accept_listen"
  /\ \/ /\ trace' = Append(trace, Sys("listen", sockfd, BACKLOG, -1))
        /\ Return(TLISTEN_ACCEPT_ERR_LISTEN)
        /\ UNCHANGED fds
     \/ /\ CanListen(sockfd)
        /\ fds' = [fds EXCEPT ![sockfd].st = "listening", ![sockfd].backlog = BACKLOG]
        /\ trace' = Append(trace, Sys("listen", sockfd, BACKLOG, 0))
        /\ pc' = "tlisten_accept_accept"
        /\ UNCHANGED <<ret, retfd, servinfo, sockfd, targetfd, BACKLOG, bytes_sent>>
  /\ UNCHANGED <<heap, Caller, Frame, stream>>

\* mutant: the listening descriptor is returned in place of the accepted one
tlisten_accept_accept_sockfd ==
  /\ pc = "tlisten_accept_accept"
  /\ \/ /\ trace' = Append(trace, Sys("accept", sockfd, 0, -1))
        /\ Return(TLISTEN_ACCEPT_ERR_ACCEPT)
        /\ UNCHANGED <<fds, accepted>>
     \/ /\ CanAccept(sockfd)
        /\ fds' = Accepted(sockfd, FreeFd)
        /\ trace' = Append(trace, Sys("accept", sockfd, 0, FreeFd))
        /\ accepted' = Append(accepted, <<sockfd, sockfd>>)
        /\ Return(sockfd)
  /\ UNCHANGED <<heap, Caller, op, ncalls, open0, heap0, disconnected, errstr, stream>>

\* accept() blocks until a connection is pending, takes the first one off
\* the queue and returns a new descriptor for it
tlisten_accept_accept ==
  /\ pc = "tlisten_accept_accept"
  /\ \/ /\ trace' = Append(trace, Sys("accept", sockfd, 0, -1))
        /\ Return(TLISTEN_ACCEPT_ERR_ACCEPT)
        /\ UNCHANGED <<fds, accepted>>
     \/ /\ CanAccept(sockfd)
        /\ fds' = Accepted(sockfd, FreeFd)
        /\ trace' = Append(trace, Sys("accept", sockfd, 0, FreeFd))
        /\ accepted' = Append(accepted, <<sockfd, FreeFd>>)
        /\ Return(FreeFd)
  /\ UNCHANGED <<heap, Caller, op, ncalls, open0, heap0, disconnected, errstr, stream>>

\* -------------------------------------------------------- tlisten_accept_a
tlisten_accept_a_call ==
  /\ Call("tlisten_accept_a", "tlisten_accept_a_listen")
  /\ \E fd \in Fds, b \in 1 .. MaxBacklog :
       /\ sockfd' = fd
       /\ BACKLOG' = b
  /\ UNCHANGED <<fds, heap, retfd, servinfo, targetfd, bytes_sent, Caller, accepted>>

tlisten_accept_a_listen ==
  /\ pc = "tlisten_accept_a_listen"
  /\ \/ /\ trace' = Append(trace, Sys("listen", sockfd, BACKLOG, -1))
        /\ Return(TLISTEN_ACCEPT_ERR_LISTEN)
        /\ UNCHANGED fds
     \/ /\ CanListen(sockfd)
        /\ fds' = [fds EXCEPT ![sockfd].st = "listening", ![sockfd].backlog = BACKLOG]
        /\ trace' = Append(trace, Sys("listen", sockfd, BACKLOG, 0))
        /\ pc' = "tlisten_accept_a_accept"
        /\ UNCHANGED <<ret, retfd, servinfo, sockfd, targetfd, BACKLOG, bytes_sent>>
  /\ UNCHANGED <<heap, Caller, Frame, stream>>

\* accept() blocks until a connection is pending, takes the first one off
\* the queue and returns a new descriptor for it
tlisten_accept_a_accept ==
  /\ pc = "tlisten_accept_a_accept"
  /\ \/ /\ trace' = Append(trace, Sys("accept", sockfd, 0, -1))
        /\ Return(TLISTEN_ACCEPT_ERR_ACCEPT)
        /\ UNCHANGED <<fds, accepted>>
     \/ /\ CanAccept(sockfd)
        /\ fds' = Accepted(sockfd, FreeFd)
        /\ trace' = Append(trace, Sys("accept", sockfd, 0, FreeFd))
        /\ accepted' = Append(accepted, <<sockfd, FreeFd>>)
        /\ Return(FreeFd)
  /\ UNCHANGED <<heap, Caller, op, ncalls, open0, heap0, disconnected, errstr, stream>>

\* ------------------------------------------------------------------ usock
usock_call ==
  /\ Call("usock", "usock_getaddrinfo")
  /\ NoArgs
  /\ UNCHANGED <<fds, heap, Caller, accepted>>

\* getaddrinfo() stores the structure through the caller's pointer
usock_getaddrinfo ==
  /\ pc = "usock_getaddrinfo"
  /\ \/ /\ trace' = Append(trace, Sys("getaddrinfo", NoFd, 0, -1))
        /\ Return(USOCK_ERR_ADDR)
        /\ UNCHANGED <<heap, targetinfo>>
     \/ /\ HasFreeAddr
        /\ heap' = heap \cup {FreeAddr}
        /\ targetinfo' = FreeAddr
        /\ trace' = Append(trace, Sys("getaddrinfo", NoFd, FreeAddr, 0))
        /\ pc' = "usock_socket"
        /\ UNCHANGED <<ret, retfd, servinfo, sockfd, targetfd, BACKLOG, bytes_sent>>
  /\ UNCHANGED <<fds, bytes, bytes_size, bytes0, Frame, stream>>

usock_socket ==
  /\ pc = "usock_socket"
  /\ \/ /\ trace' = Append(trace, Sys("socket", NoFd, 0, -1))
        /\ Return(USOCK_ERR_SOCK)
        /\ UNCHANGED fds
     \/ /\ HasFreeFd
        /\ fds' = [fds EXCEPT ![FreeFd] = NewSocket("dgram")]
        /\ trace' = Append(trace, Sys("socket", NoFd, 0, FreeFd))
        /\ Return(FreeFd)
  /\ UNCHANGED <<heap, Caller, Frame, stream>>

\* ------------------------------------------------------------------ usend
\* the caller passes a descriptor, the structure usock gave it, and data
usend_call ==
  /\ Call("usend", "usend_sendto")
  /\ targetinfo \in heap
  /\ \E fd \in Fds, n \in 0 .. MaxLen :
       /\ sockfd' = fd
       /\ bytes' = Buffer(n)
       /\ bytes0' = Buffer(n)
       /\ bytes_size' = n
  /\ UNCHANGED <<fds, heap, retfd, servinfo, targetfd, BACKLOG, bytes_sent, targetinfo, accepted>>

\* return sendto(...);
usend_sendto ==
  /\ pc = "usend_sendto"
  /\ \E n \in SendtoResults(sockfd, bytes_size) :
       /\ trace' = Append(trace, Sys("sendto", sockfd, bytes_size, n))
       /\ stream' = IF n > 0 THEN stream \o SubSeq(bytes, 1, n) ELSE stream
       /\ Return(n)
  /\ UNCHANGED <<fds, heap, Caller, Frame>>

\* ------------------------------------------------------------- usend_once
usend_once_call ==
  /\ Call("usend_once", "usend_once_getaddrinfo")
  /\ \E n \in 0 .. MaxLen :
       /\ bytes' = Buffer(n)
       /\ bytes0' = Buffer(n)
       /\ bytes_size' = n
  /\ NoArgs
  /\ UNCHANGED <<fds, heap, targetinfo, accepted>>

usend_once_getaddrinfo ==
  /\ pc = "usend_once_getaddrinfo"
  /\ \/ /\ trace' = Append(trace, Sys("getaddrinfo", NoFd, 0, -1))
        /\ Return(USEND_ONCE_ERR_ADDR)
        /\ UNCHANGED heap
     \/ /\ HasFreeAddr
        /\ heap' = heap \cup {FreeAddr}
        /\ servinfo' = FreeAddr
        /\ trace' = Append(trace, Sys("getaddrinfo", NoFd, FreeAddr, 0))
        /\ pc' = "usend_once_socket"
        /\ UNCHANGED <<ret, retfd, sockfd, targetfd, BACKLOG, bytes_sent>>
  /\ UNCHANGED <<fds, Caller, Frame, stream>>

usend_once_socket ==
  /\ pc = "usend_once_socket"
  /\ \/ /\ heap' = heap \ {servinfo}
        /\ trace' = trace \o <<Sys("socket", NoFd, 0, -1),
                               Sys("freeaddrinfo", NoFd, servinfo, 0)>>
        /\ Return(USEND_ONCE_ERR_SOCK)
        /\ UNCHANGED fds
     \/ /\ HasFreeFd
        /\ fds' = [fds EXCEPT ![FreeFd] = NewSocket("dgram")]
        /\ sockfd' = FreeFd
        /\ trace' = Append(trace, Sys("socket", NoFd, 0, FreeFd))
        /\ pc' = "usend_once_sendto"
        /\ UNCHANGED <<ret, heap, retfd, servinfo, targetfd, BACKLOG, bytes_sent>>
  /\ UNCHANGED <<Caller, Frame, stream>>

usend_once_sendto ==
  /\ pc = "usend_once_sendto"
  /\ \E n \in SendtoResults(sockfd, bytes_size) :
       /\ stream' = IF n > 0 THEN stream \o SubSeq(bytes, 1, n) ELSE stream
       /\ heap' = heap \ {servinfo}
       /\ IF n = -1
          THEN /\ trace' = trace \o <<Sys("sendto", sockfd, bytes_size, n),
                                      Sys("freeaddrinfo", NoFd, servinfo, 0)>>
               /\ Return(USEND_ONCE_ERR_SEND)
               /\ UNCHANGED fds
          ELSE /\ \E c \in CloseResults :
                    trace' = trace \o <<Sys("sendto", sockfd, bytes_size, n),
                                        Sys("freeaddrinfo", NoFd, servinfo, 0),
                                        Sys("close", sockfd, 0, c)>>
               /\ fds' = [fds EXCEPT ![sockfd] = Closed]
               /\ Return(n)
  /\ UNCHANGED <<Caller, Frame>>

\* ------------------------------------------------------------ ucreate_host
ucreate_host_call ==
  /\ Call("ucreate_host", "ucreate_host_getaddrinfo")
  /\ NoArgs
  /\ UNCHANGED <<fds, heap, Caller, accepted>>

ucreate_host_getaddrinfo ==
  /\ pc = "ucreate_host_getaddrinfo"
  /\ \/ /\ trace' = Append(trace, Sys("getaddrinfo", NoFd, 0, -1))
        /\ Return(UCREATE_HOST_ERR_ADDR)
        /\ UNCHANGED heap
     \/ /\ HasFreeAddr
        /\ heap' = heap \cup {FreeAddr}
        /\ servinfo' = FreeAddr
        /\ trace' = Append(trace, Sys("getaddrinfo", NoFd, FreeAddr, 0))
        /\ pc' = "ucreate_host_socket"
        /\ UNCHANGED <<ret, retfd, sockfd, targetfd, BACKLOG, bytes_sent>>
  /\ UNCHANGED <<fds, Caller, Frame, stream>>

ucreate_host_socket ==
  /\ pc = "ucreate_host_socket"
  /\ \/ /\ trace' = Append(trace, Sys("socket", NoFd, 0, -1))
        /\ Return(UCREATE_HOST_ERR_FD)
        /\ UNCHANGED fds
     \/ /\ HasFreeFd
        /\ fds' = [fds EXCEPT ![FreeFd] = NewSocket("dgram")]
        /\ retfd' = FreeFd
        /\ trace' = Append(trace, Sys("socket", NoFd, 0, FreeFd))
        /\ pc' = "ucreate_host_setsockopt"
        /\ UNCHANGED <<ret, servinfo, sockfd, targetfd, BACKLOG, bytes_sent>>
  /\ UNCHANGED <<heap, Caller, Frame, stream>>

ucreate_host_setsockopt ==
  /\ pc = "ucreate_host_setsockopt"
  /\ \/ /\ trace' = Append(trace, Sys("setsockopt", retfd, 0, -1))
        /\ Return(UCREATE_HOST_ERR_FPORT)
        /\ UNCHANGED fds
     \/ /\ fds' = [fds EXCEPT ![retfd].reuse = TRUE]
        /\ trace' = Append(trace, Sys("setsockopt", retfd, 0, 0))
        /\ pc' = "ucreate_host_bind"
        /\ UNCHANGED <<ret, retfd, servinfo, sockfd, targetfd, BACKLOG, bytes_sent>>
  /\ UNCHANGED <<heap, Caller, Frame, stream>>

ucreate_host_bind ==
  /\ pc = "ucreate_host_bind"
  /\ \/ /\ fds' = [fds EXCEPT ![retfd] = Closed]
        /\ \E c \in CloseResults :
             trace' = trace \o <<Sys("bind", retfd, servinfo, -1), Sys("close", retfd, 0, c)>>
        /\ Return(UCREATE_HOST_ERR_PORT)
        /\ UNCHANGED heap
     \/ /\ fds' = [fds EXCEPT ![retfd].st = "bound"]
        /\ heap' = heap \ {servinfo}
        /\ trace' = trace \o <<Sys("bind", retfd, servinfo, 0),
                               Sys("freeaddrinfo", NoFd, servinfo, 0)>>
        /\ Return(retfd)
  /\ UNCHANGED <<Caller, Frame, stream>>

\* ------------------------------------------- the {FUNCTION}_ERR__STR macros
\* The value of a macro's conditional expression: a string literal, or, where
\* an operand is an integer constant, that integer converted to a pointer.
CStr(s) == [isstr |-> TRUE, str |-> s, int |-> 0]
CInt(i) == [isstr |-> FALSE, str |-> "", int |-> i]

TCONNECT_ERR__STR(err) ==
  IF err = TCONNECT_ERR_ADDR THEN CStr(TCONNECT_ERR_ADDR_STR)
  ELSE IF err = TCONNECT_ERR_SOCK THEN CStr(TCONNECT_ERR_SOCK_STR)
  ELSE IF err = TCONNECT_ERR_CONN THEN CStr(TCONNECT_ERR_CONN_STR)
  ELSE CStr("")

TDISCONNECT_ERR__STR(err) == CStr("")

TSEND_ERR__STR(err) ==
  IF err = TSEND_ERR_SEND THEN CStr(TSEND_ERR_SEND_STR) ELSE CStr("")

TRECV_ERR__STR(err) ==
  IF err = TRECV_ERR_NODATA THEN CStr(TRECV_ERR_NODATA_STR) ELSE CStr("")

TSEND_RECV_ERR__STR(err) ==
  IF err = TSEND_RECV_ERR_SEND THEN CStr(TSEND_RECV_ERR_SEND_STR)
  ELSE IF err = TSEND_RECV_ERR_NODATA THEN CStr(TSEND_RECV_ERR_NODATA_STR)
  ELSE CStr("")

\* the first branch names TCREATE_HOST_ERR_ADDR, the code, where the other
\* branches name a ..._STR
TCREATE_HOST_ERR__STR(err) ==
  IF err = TCREATE_HOST_ERR_ADDR THEN CInt(TCREATE_HOST_ERR_ADDR)
  ELSE IF err = TCREATE_HOST_ERR_FD THEN CStr(TCREATE_HOST_ERR_FD_STR)
  ELSE IF err = TCREATE_HOST_ERR_PORT THEN CStr(TCREATE_HOST_ERR_PORT_STR)
  ELSE IF err = TCREATE_HOST_ERR_FPORT THEN CStr(TCREATE_HOST_ERR_FPORT_STR)
  ELSE CStr("")

TLISTEN_ACCEPT_ERR__STR(err) ==
  IF err = TLISTEN_ACCEPT_ERR_LISTEN THEN CStr(TLISTEN_ACCEPT_ERR_LISTEN_STR)
  ELSE IF err = TLISTEN_ACCEPT_ERR_ACCEPT THEN CStr(TLISTEN_ACCEPT_ERR_ACCEPT_STR)
  ELSE CStr("")

USOCK_ERR__STR(err) ==
  IF err = USOCK_ERR_ADDR THEN CStr(USOCK_ERR_ADDR_STR)
  ELSE IF err = USOCK_ERR_SOCK THEN CStr(USOCK_ERR_SOCK_STR)
  ELSE CStr("")

USEND_ERR__STR(err) ==
  IF err = USEND_ERR_SEND THEN CStr(USEND_ERR_SEND_STR) ELSE CStr("")

USEND_ONCE_ERR__STR(err) ==
  IF err = USEND_ONCE_ERR_ADDR THEN CStr(USEND_ONCE_ERR_ADDR_STR)
  ELSE IF err = USEND_ONCE_ERR_SOCK THEN CStr(USEND_ONCE_ERR_SOCK_STR)
  ELSE IF err = USEND_ONCE_ERR_SEND THEN CStr(USEND_ONCE_ERR_SEND_STR)
  ELSE CStr("")

\* the first branch names UCREATE_HOST_ERR_ADDR, the code, as above
UCREATE_HOST_ERR__STR(err) ==
  IF err = UCREATE_HOST_ERR_ADDR THEN CInt(UCREATE_HOST_ERR_ADDR)
  ELSE IF err = UCREATE_HOST_ERR_FD THEN CStr(UCREATE_HOST_ERR_FD_STR)
  ELSE IF err = UCREATE_HOST_ERR_PORT THEN CStr(UCREATE_HOST_ERR_PORT_STR)
  ELSE IF err = UCREATE_HOST_ERR_FPORT THEN CStr(UCREATE_HOST_ERR_FPORT_STR)
  ELSE CStr("")

\* {FUNCTION}_ERR__STR(err), {FUNCTION}_ERRS and {FUNCTION}_ERR_{ERROR}_STR
\* for the function f
ERR__STR(f, err) ==
  CASE f = "tconnect" -> TCONNECT_ERR__STR(err)
    [] f = "tdisconnect" -> TDISCONNECT_ERR__STR(err)
    [] f = "tsend" -> TSEND_ERR__STR(err)
    [] f = "trecv" -> TRECV_ERR__STR(err)
    [] f = "tsend_recv" -> TSEND_RECV_ERR__STR(err)
    [] f = "tcreate_host" -> TCREATE_HOST_ERR__STR(err)
    [] f \in {"tlisten_accept", "tlisten_accept_a"} -> TLISTEN_ACCEPT_ERR__STR(err)
    [] f = "usock" -> USOCK_ERR__STR(err)
    [] f = "usend" -> USEND_ERR__STR(err)
    [] f = "usend_once" -> USEND_ONCE_ERR__STR(err)
    [] f = "ucreate_host" -> UCREATE_HOST_ERR__STR(err)

ERRS(f) ==
  CASE f = "tconnect" -> TCONNECT_ERRS
    [] f = "tdisconnect" -> TDISCONNECT_ERRS
    [] f = "tsend" -> TSEND_ERRS
    [] f = "trecv" -> TRECV_ERRS
    [] f = "tsend_recv" -> TSEND_RECV_ERRS
    [] f = "tcreate_host" -> TCREATE_HOST_ERRS
    [] f \in {"tlisten_accept", "tlisten_accept_a"} -> TLISTEN_ACCEPT_ERRS
    [] f = "usock" -> USOCK_ERRS
    [] f = "usend" -> USEND_ERRS
    [] f = "usend_once" -> USEND_ONCE_ERRS
    [] f = "ucreate_host" -> UCREATE_HOST_ERRS

ERR_STR(f, err) ==
  CASE f = "tconnect" /\ err = TCONNECT_ERR_ADDR -> TCONNECT_ERR_ADDR_STR
    [] f = "tconnect" /\ err = TCONNECT_ERR_SOCK -> TCONNECT_ERR_SOCK_STR
    [] f = "tconnect" /\ err = TCONNECT_ERR_CONN -> TCONNECT_ERR_CONN_STR
    [] f = "tsend" /\ err = TSEND_ERR_SEND -> TSEND_ERR_SEND_STR
    [] f = "trecv" /\ err = TRECV_ERR_NODATA -> TRECV_ERR_NODATA_STR
    [] f = "tsend_recv" /\ err = TSEND_RECV_ERR_SEND -> TSEND_RECV_ERR_SEND_STR
    [] f = "tsend_recv" /\ err = TSEND_RECV_ERR_NODATA -> TSEND_RECV_ERR_NODATA_STR
    [] f = "tcreate_host" /\ err = TCREATE_HOST_ERR_ADDR -> TCREATE_HOST_ERR_ADDR_STR
    [] f = "tcreate_host" /\ err = TCREATE_HOST_ERR_FD -> TCREATE_HOST_ERR_FD_STR
    [] f = "tcreate_host" /\ err = TCREATE_HOST_ERR_PORT -> TCREATE_HOST_ERR_PORT_STR
    [] f = "tcreate_host" /\ err = TCREATE_HOST_ERR_FPORT -> TCREATE_HOST_ERR_FPORT_STR
    [] f \in {"tlisten_accept", "tlisten_accept_a"} /\ err = TLISTEN_ACCEPT_ERR_LISTEN
         -> TLISTEN_ACCEPT_ERR_LISTEN_STR
    [] f \in {"tlisten_accept", "tlisten_accept_a"} /\ err = TLISTEN_ACCEPT_ERR_ACCEPT
         -> TLISTEN_ACCEPT_ERR_ACCEPT_STR
    [] f = "usock" /\ err = USOCK_ERR_ADDR -> USOCK_ERR_ADDR_STR
    [] f = "usock" /\ err = USOCK_ERR_SOCK -> USOCK_ERR_SOCK_STR
    [] f = "usend" /\ err = USEND_ERR_SEND -> USEND_ERR_SEND_STR
    [] f = "usend_once" /\ err = USEND_ONCE_ERR_ADDR -> USEND_ONCE_ERR_ADDR_STR
    [] f = "usend_once" /\ err = USEND_ONCE_ERR_SOCK -> USEND_ONCE_ERR_SOCK_STR
    [] f = "usend_once" /\ err = USEND_ONCE_ERR_SEND -> USEND_ONCE_ERR_SEND_STR
    [] f = "ucreate_host" /\ err = UCREATE_HOST_ERR_ADDR -> UCREATE_HOST_ERR_ADDR_STR
    [] f = "ucreate_host" /\ err = UCREATE_HOST_ERR_FD -> UCREATE_HOST_ERR_FD_STR
    [] f = "ucreate_host" /\ err = UCREATE_HOST_ERR_PORT -> UCREATE_HOST_ERR_PORT_STR
    [] f = "ucreate_host" /\ err = UCREATE_HOST_ERR_FPORT -> UCREATE_HOST_ERR_FPORT_STR

\* the documented use: ret = f(...); if(ret < 0) ... {FUNCTION}_ERR__STR(ret)
err_str ==
  /\ pc = "idle"
  /\ op # "none"
  /\ ret < 0
  /\ errstr = <<>>
  /\ errstr' = <<ERR__STR(op, ret)>>
  /\ UNCHANGED <<pc, op, ncalls, ret, fds, heap, retfd, servinfo, sockfd, targetfd,
                 BACKLOG, bytes, bytes_size, bytes_sent, targetinfo, bytes0, trace,
                 stream, accepted, open0, heap0, disconnected>>

Next ==
  \/ tconnect_call \/ tconnect_getaddrinfo \/ tconnect_socket \/ tconnect_connect
  \/ tdisconnect_call \/ tdisconnect_shutdown
  \/ tsend_call \/ tsend_send
  \/ trecv_call \/ trecv_recv
  \/ tsend_recv_call \/ tsend_recv_send \/ tsend_recv_recv
  \/ tcreate_host_call \/ tcreate_host_getaddrinfo \/ tcreate_host_socket
  \/ tcreate_host_setsockopt \/ tcreate_host_bind
  \/ tlisten_accept_call \/ tlisten_accept_listen \/ tlisten_accept_accept
  \/ tlisten_accept_a_call \/ tlisten_accept_a_listen \/ tlisten_accept_a_accept
  \/ usock_call \/ usock_getaddrinfo \/ usock_socket
  \/ usend_call \/ usend_sendto
  \/ usend_once_call \/ usend_once_getaddrinfo \/ usend_once_socket \/ usend_once_sendto
  \/ ucreate_host_call \/ ucreate_host_getaddrinfo \/ ucreate_host_socket
  \/ ucreate_host_setsockopt \/ ucreate_host_bind
  \/ PeerConnect
  \/ err_str

Spec == Init /\ [][Next]_vars

\* ================================================================ claims
Done(f) == op = f /\ pc = "idle"
IsPrefix(s, t) == Len(s) <= Len(t) /\ \A i \in 1 .. Len(s) : s[i] = t[i]
Last(t) == t[Len(t)]
\* the history without the releases (freeaddrinfo, close)
IsSetup(e) == e.sys \notin {"freeaddrinfo", "close"}
Setup(t) == SelectSeq(t, IsSetup)
\* no system call was issued after one that failed
StopsAtFirstFailure(t) == \A i \in 1 .. (Len(t) - 1) : t[i].res # -1

\* C1: whenever tsend returns 0 for a buffer of N bytes, the bytes handed to
\* the peer over that call are exactly the caller's N bytes, in order, none
\* repeated or missing, however the send calls split the transfer.
C1_SentStreamIsBuffer == Done("tsend") /\ ret = 0 => stream = bytes0

\* C2: tsend goes round its loop only while the bytes transferred so far
\* fall short of bytes_size: it returns -1 at the first failing send and 0
\* once the cumulative count of bytes transferred reaches bytes_size.
C2_ReturnsOnceAllSent ==
  /\ pc = "tsend_send" /\ trace # <<>> => Len(stream) < bytes_size
  /\ Done("tsend") => /\ StopsAtFirstFailure(trace)
                      /\ Last(trace).res = -1 => ret = TSEND_ERR_SEND
                      /\ Last(trace).res # -1 => ret = 0 /\ Len(stream) = Len(bytes0)

\* C3: trecv issues exactly one recv with the caller's capacity C; a count n
\* with 1 <= n <= C gives return 0 and *bytes_size = n; a count of 0 (peer
\* closed) and a negative count (error) both give the one code -1.
C3_OneReceive ==
  Done("trecv") =>
    /\ Len(trace) = 1
    /\ trace[1].sys = "recv"
    /\ trace[1].arg = Len(bytes0)
    /\ LET n == trace[1].res
       IN  /\ n \in 1 .. Len(bytes0) => ret = 0 /\ bytes_size = n /\ bytes = Received(bytes0, n)
           /\ n = 0 => ret = TRECV_ERR_NODATA
           /\ n < 0 => ret = TRECV_ERR_NODATA
           /\ ret = 0 => n \in 1 .. Len(bytes0)

C3_PeerClosedIsRecvError == Done("trecv") /\ trace[1].res = 0 /\ ret = TRECV_ERR_NODATA

\* C4: tsend_recv is tsend followed by trecv on the same descriptor and
\* buffer: the sends come first, until one transfers the full buffer; a failed
\* send gives -1 with no recv issued and the buffer and *bytes_size as they
\* were; otherwise exactly one recv follows, into the same buffer with the
\* original *bytes_size as capacity, giving -2 for a count of 0 or less and
\* else 0 with *bytes_size the count received.
C4_SendThenOneReceive ==
  /\ pc = "tsend_recv_recv" =>
       /\ Count(trace, "recv") = 0
       /\ Last(trace).sys = "send" /\ Last(trace).res = Len(bytes0)
       /\ bytes = bytes0 /\ bytes_size = Len(bytes0)
  /\ Done("tsend_recv") =>
       LET k == Count(trace, "send")
       IN  /\ k >= 1
           /\ \A i \in 1 .. k : trace[i].sys = "send" /\ trace[i].arg = Len(bytes0)
           /\ StopsAtFirstFailure(trace)
           /\ ret \in {0, TSEND_RECV_ERR_SEND, TSEND_RECV_ERR_NODATA}
           /\ ret = TSEND_RECV_ERR_SEND <=> trace[k].res = -1
           /\ ret = TSEND_RECV_ERR_SEND =>
                Len(trace) = k /\ bytes = bytes0 /\ bytes_size = Len(bytes0)
           /\ ret # TSEND_RECV_ERR_SEND =>
                /\ trace[k].res = Len(bytes0)
                /\ Len(trace) = k + 1
                /\ Last(trace).sys = "recv"
                /\ Last(trace).fd = trace[1].fd
                /\ Last(trace).arg = Len(bytes0)
                /\ ret = TSEND_RECV_ERR_NODATA <=> Last(trace).res < 1
                /\ ret = 0 => /\ bytes_size = Last(trace).res
                              /\ bytes = Received(bytes0, Last(trace).res)

C4_PartialSendsThenReply ==
  Done("tsend_recv") /\ ret = 0 /\ Count(trace, "send") = 2 /\ bytes_size = 1

\* C5: tconnect attempts resolve, create socket, connect in that order, stops
\* at the first stage that fails, and returns that stage's code (-1, -2, -3);
\* a failed connect after a successful resolve and socket gives -3, never -1
\* or -2; on success the result is a non-negative connected descriptor.
C5_StagesInOrder ==
  op = "tconnect" =>
    /\ IsPrefix(Names(trace), <<"getaddrinfo", "socket", "connect", "freeaddrinfo">>)
    /\ StopsAtFirstFailure(trace)
    /\ pc = "idle" =>
         /\ ret = TCONNECT_ERR_ADDR <=> (Len(trace) = 1 /\ trace[1].res = -1)
         /\ ret = TCONNECT_ERR_SOCK <=> (Len(trace) = 2 /\ trace[2].res = -1)
         /\ ret = TCONNECT_ERR_CONN <=> (Len(trace) = 3 /\ trace[3].res = -1)
         /\ ret >= 0 <=> (Len(trace) = 4 /\ trace[3].res = 0)
         /\ ret >= -TCONNECT_ERRS
         /\ ret >= 0 => /\ ret = trace[2].res
                        /\ IsOpen(ret)
                        /\ fds[ret].kind = "stream"
                        /\ fds[ret].st = "connected"

C5_NotListeningIsConnError ==
  Done("tconnect") /\ ret = TCONNECT_ERR_CONN /\ Len(trace) = 3
    /\ trace[1].res = 0 /\ trace[2].res >= 0

\* C6: on every return path of tconnect that follows a successful resolution
\* (success, socket failure, connect failure) the resolved-address structure
\* has been released exactly once before the return.
C6_AddressReleasedOnEveryPath ==
  Done("tconnect") /\ trace[1].res = 0 =>
    /\ Count(trace, "freeaddrinfo") = 1
    /\ trace[1].arg \notin heap
    /\ heap = heap0

\* C7: after any call of usend_once (success, socket failure, send failure)
\* the open sockets and the allocated resolved addresses are those from before
\* the call.
C7_NothingLeftOpen == Done("usend_once") => OpenFds = open0 /\ heap = heap0

\* the setup of a host by function f, for a socket of the given kind
HostShape(f, kind, atBind) ==
  op = f =>
    /\ IsPrefix(Names(Setup(trace)), <<"getaddrinfo", "socket", "setsockopt", "bind">>)
    /\ StopsAtFirstFailure(Setup(trace))
    /\ Count(trace, "listen") = 0
    /\ pc = atBind => fds[retfd].reuse /\ fds[retfd].kind = kind
    /\ \A i \in 1 .. Len(trace) :
         trace[i].sys = "bind" => \E j \in 1 .. (i - 1) :
           trace[j].sys = "setsockopt" /\ trace[j].res = 0 /\ trace[j].fd = trace[i].fd
    /\ pc = "idle" =>
         LET t == Setup(trace)
         IN  /\ ret = -1 <=> (Len(t) = 1 /\ t[1].res = -1)
             /\ ret = -2 <=> (Len(t) = 2 /\ t[2].res = -1)
             /\ ret = -4 <=> (Len(t) = 3 /\ t[3].res = -1)
             /\ ret = -3 <=> (Len(t) = 4 /\ t[4].res = -1)
             /\ ret >= 0 <=> (Len(t) = 4 /\ t[4].res = 0)
             /\ ret >= -4
             /\ ret >= 0 => /\ ret = t[2].res
                            /\ IsOpen(ret)
                            /\ fds[ret].kind = kind
                            /\ fds[ret].st = "bound"
                            /\ fds[ret].reuse

\* C8: tcreate_host and ucreate_host have one shape and differ in the socket
\* kind: resolve, create socket, enable address reuse, bind, in that order,
\* stopping at the first failing step with -1, -2, -4, -3; address reuse is
\* enabled before any bind; neither listens; on success the descriptor is
\* bound and not listening.
C8_HostSetupShape ==
  /\ HostShape("tcreate_host", "stream", "tcreate_host_bind")
  /\ HostShape("ucreate_host", "dgram", "ucreate_host_bind")

C8_BothHostsBound ==
  /\ Done("ucreate_host") /\ ret >= 0 /\ fds[ret].st = "bound"
  /\ \E fd \in Fds : fds[fd].kind = "stream" /\ fds[fd].st = "bound" /\ fds[fd].reuse

\* one call of function f: listen, then at most one accept
AcceptShape(f, atAccept) ==
  op = f =>
    /\ IsPrefix(Names(trace), <<"listen", "accept">>)
    /\ StopsAtFirstFailure(trace)
    /\ pc = atAccept => /\ trace[1].res = 0
                        /\ trace[1].arg = BACKLOG
                        /\ fds[sockfd].st = "listening"
                        /\ fds[sockfd].backlog = BACKLOG
    /\ pc = "idle" =>
         /\ ret = TLISTEN_ACCEPT_ERR_LISTEN <=> (Len(trace) = 1 /\ trace[1].res = -1)
         /\ ret = TLISTEN_ACCEPT_ERR_ACCEPT <=> (Len(trace) = 2 /\ trace[2].res = -1)
         /\ ret >= 0 <=> (Len(trace) = 2 /\ trace[2].res >= 0)
         /\ ret >= -TLISTEN_ACCEPT_ERRS
         /\ ret >= 0 => /\ ret = trace[2].res
                        /\ ret # trace[2].fd
                        /\ IsOpen(ret)
                        /\ fds[ret].st = "connected"
                        /\ Last(accepted) = <<trace[2].fd, ret>>

\* C9: tlisten_accept and tlisten_accept_a are single-shot: a call listens
\* with the given backlog, then accepts one connection; a failed listen gives
\* -1 with no accept issued, a failed accept -2; k successful calls on one
\* bound descriptor take exactly k connections off its queue and return k
\* pairwise distinct descriptors.
C9_SingleShotAccept ==
  /\ AcceptShape("tlisten_accept", "tlisten_accept_accept")
  /\ AcceptShape("tlisten_accept_a", "tlisten_accept_a_accept")
  /\ \A s \in Fds :
       fds[s].taken = Cardinality({i \in 1 .. Len(accepted) : accepted[i][1] = s})
  /\ \A i, j \in 1 .. Len(accepted) : i # j => accepted[i][2] # accepted[j][2]

C9_TwoAcceptsOnOneHandle ==
  /\ Len(accepted) = 2
  /\ accepted[1][1] = accepted[2][1]
  /\ fds[accepted[1][1]].taken = 2

\* C10: for every function and every error code -1 .. -{FUNCTION}_ERRS it can
\* return, {FUNCTION}_ERR__STR(code) is one non-empty description string, the
\* code's own {FUNCTION}_ERR_{ERROR}_STR, and distinct codes of one function
\* have distinct strings.
C10_EveryCodeHasItsString ==
  errstr # <<>> /\ -ret \in 1 .. ERRS(op) =>
    /\ errstr[1].isstr
    /\ errstr[1].str # ""
    /\ errstr[1] = CStr(ERR_STR(op, ret))
    /\ \A c \in 1 .. ERRS(op) : -c # ret => ERR__STR(op, -c) # errstr[1]

\* the system calls of the current call that failed, among those named
Failed(names) == {i \in 1 .. Len(trace) : trace[i].sys \in names /\ trace[i].res = -1}
\* the system calls whose result the library tests
Checked ==
  {"getaddrinfo", "socket", "setsockopt", "bind", "connect", "listen", "accept",
   "send", "recv", "sendto"}
\* those whose result it drops: shutdown in tdisconnect, close in usend_once
\* and ucreate_host
Unchecked == {"shutdown", "close"}

\* C11 (as stated): in every library function, whenever a system call it
\* issues fails (getaddrinfo, socket, setsockopt, bind, connect, listen,
\* accept, send, recv, sendto, shutdown, close), the function returns exactly
\* one negative error code of its own; none returns success or nothing after
\* a failed system call.
C11_NoErrorSwallowed ==
  pc = "idle" /\ op # "none" /\ Failed(Checked \cup Unchecked) # {} =>
    ret < 0 /\ -ret \in 1 .. ERRS(op)

\* C11 (amended): whenever a system call whose result the function tests
\* fails (getaddrinfo, socket, setsockopt, bind, connect, listen, accept,
\* send, recv, sendto), the function issues no further tested call and
\* returns exactly one negative error code of its own. The results of
\* shutdown (tdisconnect, which is void) and of close (usend_once,
\* ucreate_host) are not tested: their failure alone is reported to no one.
C11_CheckedFailuresReported ==
  /\ Cardinality(Failed(Checked)) <= 1
  /\ \A i \in Failed(Checked) : \A j \in (i + 1) .. Len(trace) : trace[j].sys \notin Checked
  /\ pc = "idle" /\ op # "none" /\ Failed(Checked) # {} =>
       ret < 0 /\ -ret \in 1 .. ERRS(op)
  /\ pc = "idle" /\ op # "none" /\ Failed(Checked) = {} /\ Failed(Unchecked) # {} =>
       ret >= 0

C11_SendtoFailureReported ==
  Done("usend") /\ trace[1].sys = "sendto" /\ trace[1].res = -1 /\ ret = USEND_ERR_SEND

\* C12: tdisconnect shuts down both directions of the stream and does not
\* close the descriptor: after tdisconnect(h), h is still open, and every
\* later trecv on h returns the receive error -1, never success.
C12_ShutDownNotClosed ==
  /\ \A h \in disconnected : IsOpen(h) /\ fds[h].kind = "stream"
  /\ Done("tdisconnect") =>
       /\ Len(trace) = 1
       /\ trace[1].sys = "shutdown"
       /\ trace[1].arg = 2
       /\ trace[1].res = 0 => trace[1].fd \in disconnected /\ fds[trace[1].fd].shut
       /\ OpenFds = open0
  /\ Done("trecv") /\ trace[1].fd \in disconnected => ret = TRECV_ERR_NODATA

C12_ReceiveAfterDisconnect ==
  /\ Done("trecv")
  /\ trace[1].fd \in disconnected
  /\ fds[trace[1].fd].shut
  /\ trace[1].res = 0
  /\ ret = TRECV_ERR_NODATA

\* C13: a failed setup call leaks no socket: whenever tconnect, tcreate_host
\* or ucreate_host returns a negative error code, the set of open sockets
\* after the call equals the set before it.
C13_FailedSetupLeaksNoSocket ==
  pc = "idle" /\ op \in {"tconnect", "tcreate_host", "ucreate_host"} /\ ret < 0 =>
    OpenFds = open0
====
